---- MODULE Spec2Model ----
(***************************************************************************)
(* Restoring rooting, node labels and node order of a phylogenetic tree    *)
(* (code/notebooks/restore_tree.ipynb).                                    *)
(*                                                                         *)
(* Trees live in a heap of TreeNode objects: a node is its index in the    *)
(* sequence `heap`, and carries name, length, children (ordered) and       *)
(* parent, as skbio.TreeNode does.  Every function of the notebook is an   *)
(* operator that takes a heap and returns the heap after the call together *)
(* with the returned node or the exception raised.                         *)
(*                                                                         *)
(* Branch lengths are integers in units of 0.05; the input trees carry     *)
(* even lengths, so that the one halving of root_above is exact.           *)
(***************************************************************************)
EXTENDS Integers, Sequences, FiniteSets, TLC

VARIABLES heap, src, trg, cur, op, args, err, out, trail, calls

vars == <<heap, src, trg, cur, op, args, err, out, trail, calls>>

---------------------------------------------------------------------------
(* Values *)

\* Python's None as a node reference, as a name and as a length.
NoNode == 0
NoName == "<None>"
NoLen == 0 - 1

\* No exception: the call returned.
Ok == "ok"

\* The exceptions of the notebook, by message.
ErrRootOfRooted == "Cannot walk from root of an rooted tree."
ErrNotNeighbors == "Source and node are not neighbors."
ErrSourceNotRooted == "Source tree must be rooted."
ErrTargetNotUnrooted == "Target tree must be unrooted."
ErrTaxaMismatch == "Taxa in source and target trees do not match."
ErrDuplicateLabel == "Duplicated node label found."
ErrEmptyLabel == "There are empty node label(s) in the sourcetree."

\* The exceptions Python and scikit-bio raise on the notebook's behalf.
ErrAttribute == "AttributeError"
ErrType == "TypeError"
ErrKey == "KeyError"
ErrMissingNode == "MissingNodeError"
ErrNoTips == "No tips found."
ErrTipAsRoot == "Can't use a tip as the root"

---------------------------------------------------------------------------
(* skbio.TreeNode *)

\* TreeNode(name): a fresh node, appended to the heap; its id is Len(h) + 1.
TreeNode(h, name) ==
    Append(h, [name |-> name, length |-> NoLen, children |-> <<>>, parent |-> NoNode])

IsRoot(h, n) == h[n].parent = NoNode

IsTip(h, n) == h[n].children = <<>>

InSeq(x, s) == \E i \in 1..Len(s) : s[i] = x

Without(s, x) == SelectSeq(s, LAMBDA y : y # x)

SetField(h, n, f, v) == [h EXCEPT ![n] = [h[n] EXCEPT ![f] = v]]

\* node.siblings(): the other children of node's parent, in order.
Siblings(h, n) ==
    IF IsRoot(h, n) THEN <<>> ELSE Without(h[h[n].parent].children, n)

\* A faulty variant: the adopted child is put first.
AppendChildFirst(h, p, c) ==
    LET q == h[c].parent
        h1 == IF q # NoNode /\ InSeq(c, h[q].children)
              THEN SetField(h, q, "children", Without(h[q].children, c))
              ELSE h
        h2 == SetField(h1, c, "parent", p)
    IN SetField(h2, p, "children", <<c>> \o h2[p].children)

\* p.append(c): c is removed from its former parent's children if it is
\* listed there, then adopted by p and appended to p's children.
AppendChild(h, p, c) ==
    LET q == h[c].parent
        h1 == IF q # NoNode /\ InSeq(c, h[q].children)
              THEN SetField(h, q, "children", Without(h[q].children, c))
              ELSE h
        h2 == SetField(h1, c, "parent", p)
    IN SetField(h2, p, "children", Append(h2[p].children, c))

RECURSIVE Extend(_, _, _)
\* p.extend(cs)
Extend(h, p, cs) ==
    IF cs = <<>> THEN h
    ELSE Extend(AppendChild(h, p, Head(cs)), p, Tail(cs))

RECURSIVE Postorder(_, _)
RECURSIVE PostorderAll(_, _)
\* node.postorder(include_self=True)
Postorder(h, n) == PostorderAll(h, h[n].children) \o <<n>>
PostorderAll(h, cs) ==
    IF cs = <<>> THEN <<>>
    ELSE Postorder(h, Head(cs)) \o PostorderAll(h, Tail(cs))

RECURSIVE Preorder(_, _)
RECURSIVE PreorderAll(_, _)
\* node.traverse(): preorder, self included
Preorder(h, n) == <<n>> \o PreorderAll(h, h[n].children)
PreorderAll(h, cs) ==
    IF cs = <<>> THEN <<>>
    ELSE Preorder(h, Head(cs)) \o PreorderAll(h, Tail(cs))

\* node.tips(): the tips below node in postorder, node itself excluded.
Tips(h, n) ==
    SelectSeq(PostorderAll(h, h[n].children), LAMBDA x : IsTip(h, x))

\* node.non_tips(include_self=True)
NonTips(h, n) == SelectSeq(Postorder(h, n), LAMBDA x : ~IsTip(h, x))

Range(s) == {s[i] : i \in 1..Len(s)}

\* set(x.name for x in node.tips())
TipNameSet(h, n) == {h[t].name : t \in Range(Tips(h, n))}

\* node.count(tips=True)
CountTips(h, n) == Len(Tips(h, n))

\* The result of a call: the heap after it, the node returned, the exception.
Ret(h, n) == [h |-> h, node |-> n, err |-> Ok]
Fail(h, e) == [h |-> h, node |-> NoNode, err |-> e]

---------------------------------------------------------------------------
(* walk_copy *)

\* a + b on lengths: None is no operand.
AddLen(a, b) == IF a = NoLen \/ b = NoLen THEN NoLen ELSE a + b

Position(h, node) ==
    IF IsRoot(h, node) THEN "root"
    ELSE IF IsRoot(h, h[node].parent) THEN "basal"
    ELSE "derived"

\* A faulty variant: an apex of more than two children counts as rooted too.
RootedOnTwoOrMore(h, node) ==
    LET pos == Position(h, node)
    IN IF pos = "root" THEN Len(h[node].children) >= 2
       ELSE IF pos = "basal" THEN Len(h[h[node].parent].children) >= 2
       ELSE FALSE

\* A faulty variant: the root status is determined for basal nodes only.
RootedAtBasalOnly(h, node) ==
    Position(h, node) = "basal" /\ Len(h[h[node].parent].children) = 2

Rooted(h, node) ==
    LET pos == Position(h, node)
    IN IF pos = "root" THEN Len(h[node].children) = 2
       ELSE IF pos = "basal" THEN Len(h[h[node].parent].children) = 2
       ELSE FALSE

\* A faulty variant: a basal node of a rooted tree may be entered from the
\* apex, as any other node from its parent.
MoveFromApex(h, node, s) ==
    IF Rooted(h, node) /\ Position(h, node) = "basal" /\ s = Siblings(h, node)[1]
    THEN "bottom"
    ELSE IF Rooted(h, node) /\ Position(h, node) = "basal" /\ InSeq(s, h[node].children)
    THEN "top"
    ELSE IF s = h[node].parent THEN "down"
    ELSE IF InSeq(s, h[node].children) THEN "up"
    ELSE "n/a"

Move(h, node, s) ==
    IF Rooted(h, node) /\ Position(h, node) = "basal"
    THEN IF s = Siblings(h, node)[1] THEN "bottom"
         ELSE IF InSeq(s, h[node].children) THEN "top"
         ELSE "n/a"
    ELSE IF s = h[node].parent THEN "down"
         ELSE IF InSeq(s, h[node].children) THEN "up"
         ELSE "n/a"

\* A faulty variant: the two basal branches are not merged.
NewLengthUnmerged(h, node, s, move) ==
    IF move = "down" \/ move = "bottom" THEN h[node].length
    ELSE h[s].length

\* A faulty variant: but for the merged branch, the new node takes the
\* length of the node it was entered from.
NewLengthOfSrc(h, node, s, move) ==
    IF move = "bottom" THEN AddLen(h[s].length, h[node].length)
    ELSE IF s = NoNode THEN NoLen
    ELSE h[s].length

\* A faulty variant: the new node always takes the length of the node.
NewLengthOfNode(h, node, s, move) == h[node].length

\* The length of the new node; a sum with None raises TypeError.
NewLength(h, node, s, move) ==
    IF move = "down" THEN h[node].length
    ELSE IF move = "bottom" THEN AddLen(h[s].length, h[node].length)
    ELSE h[s].length

\* A faulty variant: the children of the node are not copied.
WalkCopyEachNone(h, cs, node, acc) == [h |-> h, nodes |-> acc, err |-> Ok]

RECURSIVE WalkCopy(_, _, _)
RECURSIVE WalkCopyEach(_, _, _, _)

RECURSIVE WalkCopyEachTwice(_, _, _, _)
\* A faulty variant: each child is entered twice.
WalkCopyEachTwice(h, cs, node, acc) ==
    IF cs = <<>> THEN [h |-> h, nodes |-> acc, err |-> Ok]
    ELSE LET r1 == WalkCopy(h, Head(cs), node)
             r2 == WalkCopy(r1.h, Head(cs), node)
         IN IF r1.err # Ok THEN [h |-> r1.h, nodes |-> acc, err |-> r1.err]
            ELSE IF r2.err # Ok THEN [h |-> r2.h, nodes |-> acc, err |-> r2.err]
            ELSE WalkCopyEachTwice(r2.h, Tail(cs), node, acc \o <<r1.node, r2.node>>)

\* [walk_copy(c, node) for c in cs]: the copies, in order, in `nodes`.
WalkCopyEach(h, cs, node, acc) ==
    IF cs = <<>> THEN [h |-> h, nodes |-> acc, err |-> Ok]
    ELSE LET r == WalkCopy(h, Head(cs), node)
         IN IF r.err # Ok THEN [h |-> r.h, nodes |-> acc, err |-> r.err]
            ELSE WalkCopyEach(r.h, Tail(cs), node, Append(acc, r.node))

WalkCopy(h, node, s) ==
    IF node = NoNode THEN Fail(h, ErrAttribute)
    ELSE
    LET parent == h[node].parent
        children == h[node].children
        pos == Position(h, node)
        rooted == Rooted(h, node)
    IN IF rooted /\ pos = "root" THEN Fail(h, ErrRootOfRooted)
       ELSE
       LET sibling == IF rooted /\ pos = "basal" THEN Siblings(h, node)[1] ELSE NoNode
           move == Move(h, node, s)
       IN IF move = "n/a" THEN Fail(h, ErrNotNeighbors)
          ELSE
          LET h1 == TreeNode(h, h[node].name)
              res == Len(h1)
              len == NewLength(h, node, s, move)
          IN IF move = "bottom" /\ len = NoLen THEN Fail(h1, ErrType)
             ELSE
             LET h2 == SetField(h1, res, "length", len)
                 r1 == WalkCopyEach(h2, Without(children, s), node, <<>>)
             IN IF r1.err # Ok THEN Fail(r1.h, r1.err)
                ELSE
                LET h3 == Extend(r1.h, res, r1.nodes)
                IN IF move = "up" /\ pos # "root"
                   THEN LET r2 == WalkCopy(h3, parent, node)
                        IN IF r2.err # Ok THEN r2
                           ELSE Ret(AppendChild(r2.h, res, r2.node), res)
                   ELSE IF move = "top"
                   THEN LET r3 == WalkCopy(h3, sibling, node)
                        IN IF r3.err # Ok THEN r3
                           ELSE Ret(AppendChild(r3.h, res, r3.node), res)
                   ELSE Ret(h3, res)

---------------------------------------------------------------------------
(* walk_copy, Solution I *)

RECURSIVE WalkCopy1(_, _, _)
RECURSIVE WalkCopy1Each(_, _, _, _)

\* [walk_copy(x, node) for x in cs], by Solution I.
WalkCopy1Each(h, cs, node, acc) ==
    IF cs = <<>> THEN [h |-> h, nodes |-> acc, err |-> Ok]
    ELSE LET r == WalkCopy1(h, Head(cs), node)
         IN IF r.err # Ok THEN [h |-> r.h, nodes |-> acc, err |-> r.err]
            ELSE WalkCopy1Each(r.h, Tail(cs), node, Append(acc, r.node))

\* The branch `src is node.parent`: the length of node, all its children.
Branch1Down(h, res, node) ==
    LET r == WalkCopy1Each(SetField(h, res, "length", h[node].length),
                           h[node].children, node, <<>>)
    IN IF r.err # Ok THEN Fail(r.h, r.err) ELSE Ret(Extend(r.h, res, r.nodes), res)

\* The branch `src in node.children`: the length of src, the other
\* children and then the copy of `last`, if there is one to append.
Branch1Up(h, res, node, s, last) ==
    LET r == WalkCopy1Each(SetField(h, res, "length", h[s].length),
                           Without(h[node].children, s), node, <<>>)
    IN IF r.err # Ok THEN Fail(r.h, r.err)
       ELSE IF last = NoNode THEN Ret(Extend(r.h, res, r.nodes), res)
       ELSE LET r2 == WalkCopy1(Extend(r.h, res, r.nodes), last, node)
            IN IF r2.err # Ok THEN r2
               ELSE Ret(AppendChild(r2.h, res, r2.node), res)

\* The branch `src in siblings` of a basal node of a rooted tree.
Branch1Bottom(h, res, node, s) ==
    IF AddLen(h[node].length, h[s].length) = NoLen THEN Fail(h, ErrType)
    ELSE
    LET r == WalkCopy1Each(SetField(h, res, "length", h[node].length + h[s].length),
                           h[node].children, node, <<>>)
    IN IF r.err # Ok THEN Fail(r.h, r.err) ELSE Ret(Extend(r.h, res, r.nodes), res)

WalkCopy1(h, node, s) ==
    IF node = NoNode THEN Fail(h, ErrAttribute)
    ELSE
    LET h1 == TreeNode(h, h[node].name)
        res == Len(h1)
        children == h[node].children
        siblings == Siblings(h, node)
    IN IF IsRoot(h, node)
       THEN IF Len(children) = 2 THEN Fail(h1, ErrRootOfRooted)
            ELSE IF InSeq(s, children) THEN Branch1Up(h1, res, node, s, NoNode)
            ELSE Fail(h1, ErrNotNeighbors)
       ELSE IF IsRoot(h, h[node].parent) /\ Len(h[h[node].parent].children) = 2
       THEN IF InSeq(s, siblings) THEN Branch1Bottom(h1, res, node, s)
            ELSE IF InSeq(s, children) THEN Branch1Up(h1, res, node, s, siblings[1])
            ELSE Fail(h1, ErrNotNeighbors)
       ELSE IF s = h[node].parent THEN Branch1Down(h1, res, node)
            ELSE IF InSeq(s, children) THEN Branch1Up(h1, res, node, s, h[node].parent)
            ELSE Fail(h1, ErrNotNeighbors)

---------------------------------------------------------------------------
(* root_above *)

\* A faulty variant: the basal branches keep the whole length.
HalfKept(l) == l

\* node.length / 2, exact on the even lengths of the inputs.
Half(l) == l \div 2

\* A faulty variant: the two copies are listed as the children of the new
\* root but are not adopted by it.
RootAboveUnadopted(h, node, name) ==
    IF node = NoNode THEN Fail(h, ErrAttribute)
    ELSE
    LET left == WalkCopy(h, node, h[node].parent)
    IN IF left.err # Ok THEN left
       ELSE
       LET right == WalkCopy(left.h, h[node].parent, node)
       IN IF right.err # Ok THEN right
          ELSE IF h[node].length = NoLen THEN Fail(right.h, ErrType)
          ELSE
          LET h1 == SetField(right.h, right.node, "length", Half(h[node].length))
              h2 == SetField(h1, left.node, "length", h1[right.node].length)
              h3 == TreeNode(h2, name)
          IN Ret(SetField(h3, Len(h3), "children", <<left.node, right.node>>), Len(h3))

RootAbove(h, node, name) ==
    IF node = NoNode THEN Fail(h, ErrAttribute)
    ELSE
    LET left == WalkCopy(h, node, h[node].parent)
    IN IF left.err # Ok THEN left
       ELSE
       LET right == WalkCopy(left.h, h[node].parent, node)
       IN IF right.err # Ok THEN right
          ELSE IF h[node].length = NoLen THEN Fail(right.h, ErrType)
          ELSE
          LET h1 == SetField(right.h, right.node, "length", Half(h[node].length))
              h2 == SetField(h1, left.node, "length", h1[right.node].length)
              h3 == TreeNode(h2, name)
          IN Ret(Extend(h3, Len(h3), <<left.node, right.node>>), Len(h3))

---------------------------------------------------------------------------
(* scikit-bio: copy, find, lca, root_at *)

\* A faulty variant: no copy is made, the caller works on the tree it was given.
CopyShared(h, n) == [h |-> h, node |-> n, err |-> "ok"]

RECURSIVE Copy(_, _)
RECURSIVE CopyEach(_, _, _)

\* [c.copy() for c in cs]
CopyEach(h, cs, acc) ==
    IF cs = <<>> THEN [h |-> h, nodes |-> acc]
    ELSE LET r == Copy(h, Head(cs))
         IN CopyEach(r.h, Tail(cs), Append(acc, r.node))

\* node.copy(): a deep copy of the subtree of node (names, lengths, order).
Copy(h, n) ==
    LET h1 == TreeNode(h, h[n].name)
        res == Len(h1)
        h2 == SetField(h1, res, "length", h[n].length)
        r == CopyEach(h2, h[n].children, <<>>)
    IN Ret(Extend(r.h, res, r.nodes), res)

\* tree.find(name): a tip of that name first, else the first internal node
\* of that name in postorder; MissingNodeError when there is none.
Find(h, root, name) ==
    LET po == Postorder(h, root)
        tips == SelectSeq(po, LAMBDA x : IsTip(h, x) /\ h[x].name = name)
        inner == SelectSeq(po, LAMBDA x : ~IsTip(h, x) /\ h[x].name = name)
    IN IF name = NoName THEN NoNode
       ELSE IF tips # <<>> THEN tips[1]
       ELSE IF inner # <<>> THEN inner[1]
       ELSE NoNode

RECURSIVE IsAncestorOrSelf(_, _, _)
IsAncestorOrSelf(h, a, n) ==
    IF n = NoNode THEN FALSE
    ELSE IF n = a THEN TRUE
    ELSE IsAncestorOrSelf(h, a, h[n].parent)

\* tree.lca(tipnames) with tipnames a set: one name is read as tipnames[0],
\* which a set does not support; no name at all is "No tips found.";
\* otherwise the deepest node above all the named tips.
Lca(h, root, names) ==
    IF Cardinality(names) = 1 THEN Fail(h, ErrType)
    ELSE IF names = {} THEN Fail(h, ErrNoTips)
    ELSE IF \E nm \in names : Find(h, root, nm) = NoNode THEN Fail(h, ErrMissingNode)
    ELSE
    LET tips == {Find(h, root, nm) : nm \in names}
        above == {a \in Range(Preorder(h, root)) :
                     \A t \in tips : IsAncestorOrSelf(h, a, t)}
    IN Ret(h, CHOOSE a \in above : \A b \in above : IsAncestorOrSelf(h, b, a))

RECURSIVE UnrootedCopy(_, _, _)
RECURSIVE UnrootedCopyEach(_, _, _, _)

\* [c.unrooted_copy(parent=self) for c in cs]
UnrootedCopyEach(h, cs, self, acc) ==
    IF cs = <<>> THEN [h |-> h, nodes |-> acc]
    ELSE LET r == UnrootedCopy(h, Head(cs), self)
         IN UnrootedCopyEach(r.h, Tail(cs), self, Append(acc, r.node))

\* self.unrooted_copy(parent=from): the neighbours of self other than from
\* become the children of the copy; names and lengths belong to edges, so a
\* node entered from below takes the name and length of the child it was
\* entered from; the node the walk starts at is named "root".
UnrootedCopy(h, self, from) ==
    LET up == IF h[self].parent = NoNode THEN <<>> ELSE <<h[self].parent>>
        neighbors == Without(h[self].children \o up, from)
        r == UnrootedCopyEach(h, neighbors, self, <<>>)
        edgename == IF from = NoNode THEN "root"
                    ELSE IF h[from].parent = self THEN h[from].name
                    ELSE h[self].name
        length == IF from = NoNode THEN NoLen
                  ELSE IF h[from].parent = self THEN h[from].length
                  ELSE h[self].length
        h1 == TreeNode(r.h, edgename)
        res == Len(h1)
        h2 == SetField(h1, res, "length", length)
    IN Ret(Extend(h2, res, r.nodes), res)

\* tree.root_at(node)
RootAt(h, node) ==
    IF IsTip(h, node) THEN Fail(h, ErrTipAsRoot)
    ELSE UnrootedCopy(h, node, NoNode)

---------------------------------------------------------------------------
(* restore_rooting *)

\* min(counts, key=counts.get): the first child of src with the least count.
Outgroup(h, s) ==
    LET c1 == h[s].children[1]
        c2 == h[s].children[2]
    IN IF CountTips(h, c2) < CountTips(h, c1) THEN TipNameSet(h, c2)
       ELSE TipNameSet(h, c1)

\* A faulty variant: the first tip is taken, of the outgroup or not.
AnyTips(h, res, outgroup) == Tips(h, res)

\* The tips of res that are not in the outgroup, in order.
NotInOutgroup(h, res, outgroup) ==
    SelectSeq(Tips(h, res), LAMBDA t : h[t].name \notin outgroup)

\* A faulty variant: the taxa are compared before the target is looked at.
RootingChecksTaxaFirst(h, s, t) ==
    IF Len(h[s].children) # 2 THEN ErrSourceNotRooted
    ELSE IF TipNameSet(h, s) # TipNameSet(h, t) THEN ErrTaxaMismatch
    ELSE IF Len(h[t].children) = 2 THEN ErrTargetNotUnrooted
    ELSE Ok

\* The three checks, in the order of the code; Ok when all pass.
RootingChecks(h, s, t) ==
    IF Len(h[s].children) # 2 THEN ErrSourceNotRooted
    ELSE IF Len(h[t].children) = 2 THEN ErrTargetNotUnrooted
    ELSE IF TipNameSet(h, s) # TipNameSet(h, t) THEN ErrTaxaMismatch
    ELSE Ok

RestoreRooting(h, s, t) ==
    IF RootingChecks(h, s, t) # Ok THEN Fail(h, RootingChecks(h, s, t))
    ELSE
    LET c == Copy(h, t)
        outgroup == Outgroup(h, s)
        lca1 == Lca(c.h, c.node, outgroup)
    IN IF lca1.err # Ok THEN lca1
       ELSE IF lca1.node # c.node THEN RootAbove(c.h, lca1.node, NoName)
       ELSE
       LET others == NotInOutgroup(c.h, c.node, outgroup)
           swapped == IF others = <<>> THEN Ret(c.h, c.node)
                      ELSE RootAt(c.h, c.h[others[1]].parent)
       IN IF swapped.err # Ok THEN swapped
          ELSE LET lca2 == Lca(swapped.h, swapped.node, outgroup)
               IN IF lca2.err # Ok THEN lca2
                  ELSE RootAbove(swapped.h, lca2.node, NoName)

---------------------------------------------------------------------------
(* restore_node_labels *)

\* A faulty variant: the empty string counts as a label.
IsLabelNotNone(name) == name # NoName

\* label is not None and label != ''
IsLabel(name) == name # NoName /\ name # ""

RECURSIVE Label2Taxa(_, _, _)
\* The dictionary label2taxa, in insertion order, as pairs <<label, taxa>>;
\* <<>> after a failure is told apart by DuplicatedLabel.
Label2Taxa(h, nodes, acc) ==
    IF nodes = <<>> THEN acc
    ELSE LET label == h[Head(nodes)].name
         IN IF IsLabel(label)
            THEN Label2Taxa(h, Tail(nodes),
                            Append(acc, <<label, TipNameSet(h, Head(nodes))>>))
            ELSE Label2Taxa(h, Tail(nodes), acc)

\* `label in label2taxa` holds at some node of the first loop.
DuplicatedLabel(h, s) ==
    LET nodes == NonTips(h, s)
    IN \E i, j \in 1..Len(nodes) :
          i < j /\ IsLabel(h[nodes[i]].name) /\ h[nodes[i]].name = h[nodes[j]].name

RECURSIVE MarkNodesBySize(_, _, _)
\* A faulty variant: taxa match when they are as many.
MarkNodesBySize(h, nodes, l2t) ==
    IF nodes = <<>> THEN h
    ELSE LET node == Head(nodes)
             taxa == TipNameSet(h, node)
             hits == SelectSeq(l2t, LAMBDA e : Cardinality(e[2]) = Cardinality(taxa))
             h1 == IF hits = <<>> THEN h ELSE SetField(h, node, "name", hits[1][1])
         IN MarkNodesBySize(h1, Tail(nodes), l2t)

RECURSIVE MarkNodes(_, _, _)
\* The second loop: each internal node takes the first label of label2taxa
\* whose taxa are its own.
MarkNodes(h, nodes, l2t) ==
    IF nodes = <<>> THEN h
    ELSE LET node == Head(nodes)
             taxa == TipNameSet(h, node)
             hits == SelectSeq(l2t, LAMBDA e : e[2] = taxa)
             h1 == IF hits = <<>> THEN h ELSE SetField(h, node, "name", hits[1][1])
         IN MarkNodes(h1, Tail(nodes), l2t)

\* A faulty variant: a label that finds no node is an error.
RestoreNodeLabelsStrict(h, s, t) ==
    IF DuplicatedLabel(h, s) THEN Fail(h, ErrDuplicateLabel)
    ELSE
    LET l2t == Label2Taxa(h, NonTips(h, s), <<>>)
        c == Copy(h, t)
        found == {TipNameSet(c.h, n) : n \in Range(NonTips(c.h, c.node))}
    IN IF \E i \in 1..Len(l2t) : l2t[i][2] \notin found
       THEN Fail(c.h, ErrMissingNode)
       ELSE Ret(MarkNodes(c.h, NonTips(c.h, c.node), l2t), c.node)

RestoreNodeLabels(h, s, t) ==
    IF DuplicatedLabel(h, s) THEN Fail(h, ErrDuplicateLabel)
    ELSE
    LET l2t == Label2Taxa(h, NonTips(h, s), <<>>)
        c == Copy(h, t)
    IN Ret(MarkNodes(c.h, NonTips(c.h, c.node), l2t), c.node)

---------------------------------------------------------------------------
(* restore_node_order *)

\* name2child[name]: the last child of that name.
Name2Child(h, children, name) ==
    LET hits == SelectSeq(children, LAMBDA x : h[x].name = name)
    IN IF hits = <<>> THEN NoNode ELSE hits[Len(hits)]

RECURSIVE PutByName(_, _, _, _, _)
PutByName(h, ntrg, old, hs, names) ==
    IF names = <<>> THEN Ret(h, ntrg)
    ELSE LET c == Name2Child(hs, old, Head(names))
         IN IF c = NoNode THEN Fail(h, ErrKey)
            ELSE PutByName(SetField(h, ntrg, "children", Append(h[ntrg].children, c)),
                           ntrg, old, hs, Tail(names))

\* A faulty variant: the children are added to a list that was not emptied.
AppendByNameKeeping(h, ntrg, old, hs, names) ==
    PutByName(SetField(h, ntrg, "children", old), ntrg, old, hs, names)

RECURSIVE AppendByNameSkipping(_, _, _, _, _)
\* A faulty variant: a child of src that has no namesake is passed over.
AppendByNameSkipping(h, ntrg, old, hs, names) ==
    IF names = <<>> THEN Ret(h, ntrg)
    ELSE LET c == Name2Child(hs, old, Head(names))
         IN IF c = NoNode THEN AppendByNameSkipping(h, ntrg, old, hs, Tail(names))
            ELSE AppendByNameSkipping(AppendChild(h, ntrg, c), ntrg, old, hs, Tail(names))

\* A faulty variant: the children are put back in their former order.
AppendByNameAsFound(h, ntrg, old, hs, names) ==
    IF \E i \in DOMAIN names : Name2Child(hs, old, names[i]) = NoNode
    THEN Fail(h, ErrKey)
    ELSE Ret(SetField(h, ntrg, "children", old), ntrg)

RECURSIVE AppendByName(_, _, _, _, _)
\* for child in nsrc.children: ntrg.append(name2child[child.name])
AppendByName(h, ntrg, old, hs, names) ==
    IF names = <<>> THEN Ret(h, ntrg)
    ELSE LET c == Name2Child(hs, old, Head(names))
         IN IF c = NoNode THEN Fail(h, ErrKey)
            ELSE AppendByName(AppendChild(h, ntrg, c), ntrg, old, hs, Tail(names))

RECURSIVE ReorderEach(_, _, _)
\* The loop over src.traverse(), on the copy res.
ReorderEach(h, nodes, res) ==
    IF nodes = <<>> THEN Ret(h, res)
    ELSE LET nsrc == Head(nodes)
         IN IF IsTip(h, nsrc) THEN ReorderEach(h, Tail(nodes), res)
            ELSE IF ~IsLabel(h[nsrc].name) THEN Fail(h, ErrEmptyLabel)
            ELSE
            LET ntrg == Find(h, res, h[nsrc].name)
            IN IF ntrg = NoNode THEN Fail(h, ErrMissingNode)
               ELSE
               LET old == h[ntrg].children
                   h1 == SetField(h, ntrg, "children", <<>>)
                   names == [i \in 1..Len(h[nsrc].children) |->
                                h[h[nsrc].children[i]].name]
                   r == AppendByName(h1, ntrg, old, h, names)
               IN IF r.err # Ok THEN r
                  ELSE ReorderEach(r.h, Tail(nodes), res)

RestoreNodeOrder(h, s, t) ==
    LET c == Copy(h, t)
    IN ReorderEach(c.h, Preorder(c.h, s), c.node)

---------------------------------------------------------------------------
(* The input trees *)

\* Bounds of the input families.
MaxSingle == 6
MaxSmall == 4
MaxNodes == 7
MaxTrail == 3
MaxRepeatedSrc == 6
MaxRepeated == 8
MaxUnrelated == 6

TipLetters == <<"a", "b", "c", "d", "e", "h", "i", "l", "o", "t", "u", "v">>
LabelLetters == <<"k", "g", "f", "j", "m", "n", "p", "q", "r", "s">>

RECURSIVE PathToRoot(_, _)
PathToRoot(p, i) == IF i = 0 THEN {} ELSE {i} \cup PathToRoot(p, p[i])

RECURSIVE Shapes(_)
\* The ordered trees of n nodes, as parent vectors in preorder numbering.
Shapes(n) ==
    IF n = 1 THEN {<<0>>}
    ELSE UNION {{Append(p, q) : q \in PathToRoot(p, n - 1)} : p \in Shapes(n - 1)}

ShapesUpTo(n) == UNION {Shapes(k) : k \in 1..n}

ChildrenIn(p, i) == SelectSeq([j \in 1..Len(p) |-> j], LAMBDA j : p[j] = i)

\* The rank of node i among the tips (or among the internal nodes) of p.
RankIn(p, i) ==
    LET tip == ChildrenIn(p, i) = <<>>
    IN Cardinality({j \in 1..i : (ChildrenIn(p, j) = <<>>) = tip})

\* Names of the nodes of shape p: tips take letters in preorder ("fwd") or
\* in reverse preorder ("rev"), or the letters after the first ("shift"),
\* or the first two letters in turn ("mod2");
\* internal nodes are all labelled differently ("uniq"), not at all
\* ("none"), with the empty string ("empty"), all alike ("dup"), or
\* differently except for the root, which has no label ("noroot"), or with
\* two labels that repeat in turn below the root ("twice"), or with one
\* label for the root and another for all others ("pair").
NameIn(p, i, tipsAs, labelsAs) ==
    LET ntips == Cardinality({j \in 1..Len(p) : ChildrenIn(p, j) = <<>>})
        r == RankIn(p, i)
    IN IF ChildrenIn(p, i) = <<>>
       THEN IF tipsAs = "fwd" THEN TipLetters[r]
            ELSE IF tipsAs = "rev" THEN TipLetters[ntips + 1 - r]
            ELSE IF tipsAs = "mod2" THEN TipLetters[2 - (r % 2)]
            ELSE TipLetters[r + 1]
       ELSE IF labelsAs = "uniq" THEN LabelLetters[r]
            ELSE IF labelsAs = "none" THEN NoName
            ELSE IF labelsAs = "empty" THEN ""
            ELSE IF labelsAs = "dup" THEN "x"
            ELSE IF labelsAs = "pair"
                 THEN (IF r = 1 THEN LabelLetters[1] ELSE LabelLetters[2])
            ELSE IF labelsAs = "twice"
                 THEN (IF r = 1 THEN LabelLetters[1] ELSE LabelLetters[2 + (r % 2)])
            ELSE IF i = 1 THEN NoName ELSE LabelLetters[r]

\* TreeNode.read: the tree of shape p after the nodes of h; node i of p is
\* node Len(h) + i, the root has no length and node i > 1 has length lens[i].
Read(h, p, names, lens) ==
    h \o [i \in 1..Len(p) |->
            [name |-> names[i],
             length |-> IF i = 1 THEN NoLen ELSE lens[i],
             children |-> [k \in 1..Len(ChildrenIn(p, i)) |->
                              Len(h) + ChildrenIn(p, i)[k]],
             parent |-> IF i = 1 THEN NoNode ELSE Len(h) + p[i]]]

ReadAs(h, p, tipsAs, labelsAs) ==
    Read(h, p, [i \in 1..Len(p) |-> NameIn(p, i, tipsAs, labelsAs)],
         [i \in 1..Len(p) |-> 2 * i])

\* (((a:1.0,b:0.8)c:2.4,(d:0.8,e:0.6)f:1.2)g:0.4,(h:0.5,i:0.7)j:1.8)k;
GoldenShape == <<0, 1, 2, 3, 3, 2, 6, 6, 1, 9, 9>>
GoldenNames == <<"k", "g", "c", "a", "b", "f", "d", "e", "j", "h", "i">>
GoldenLens == <<0, 8, 48, 20, 16, 24, 16, 12, 36, 10, 14>>
Golden(h) == Read(h, GoldenShape, GoldenNames, GoldenLens)

NodesOf(h, root) == Range(Preorder(h, root))

\* The neighbours of u once the root s (of two children) is removed: the
\* two basal nodes become neighbours of each other.
UnrootedNeighbors(h, s, u) ==
    h[u].children \o (IF h[u].parent = s THEN Siblings(h, u) ELSE <<h[u].parent>>)

\* The length of the branch between the neighbours u and w.
BranchBetween(h, u, w) ==
    IF h[w].parent = u THEN h[w].length
    ELSE IF h[u].parent = w THEN h[u].length
    ELSE h[u].length + h[w].length

Reverse(cs) == [i \in 1..Len(cs) |-> cs[Len(cs) + 1 - i]]

Permuted(cs, how) ==
    IF how = "reverse" THEN Reverse(cs)
    ELSE IF how = "rotate" /\ cs # <<>> THEN Append(Tail(cs), Head(cs))
    ELSE cs

RECURSIVE Unrooted(_, _, _, _, _)
RECURSIVE UnrootedEach(_, _, _, _, _, _)

UnrootedEach(h, s, cs, u, how, acc) ==
    IF cs = <<>> THEN [h |-> h, nodes |-> acc]
    ELSE LET r == Unrooted(h, s, Head(cs), u, how)
         IN UnrootedEach(r.h, s, Tail(cs), u, how, Append(acc, r.node))

\* What the external branch-length tool hands back for the tree of root s:
\* the same tree without its root, drawn from the node u, with the internal
\* labels gone and every children list permuted.
Unrooted(h, s, u, from, how) ==
    LET others == Permuted(Without(UnrootedNeighbors(h, s, u), from), how)
        h1 == TreeNode(h, IF IsTip(h, u) THEN h[u].name ELSE NoName)
        res == Len(h1)
        h2 == SetField(h1, res, "length",
                       IF from = NoNode THEN NoLen ELSE BranchBetween(h, u, from))
        r == UnrootedEach(h2, s, others, u, how, <<>>)
    IN Ret(Extend(r.h, res, r.nodes), res)

\* The nodes the unrooted drawing of the tree of root s can start at.
Apexes(h, s) ==
    {u \in NodesOf(h, s) \ {s} : Len(UnrootedNeighbors(h, s, u)) >= 3}

\* A tree with one more node on top: an apex of one child.
Wrapped(h, t) ==
    LET h1 == TreeNode(h, NoName)
    IN Ret(AppendChild(SetField(h1, t, "length", 2), Len(h1), t), Len(h1))

SourceKinds == {<<"fwd", "uniq">>, <<"fwd", "none">>, <<"fwd", "dup">>,
                <<"fwd", "empty">>, <<"shift", "noroot">>}
TargetKinds == {<<"fwd", "none">>, <<"rev", "uniq">>}

\* Any two small trees.
SmallPairs ==
    {[h |-> ReadAs(ReadAs(<<>>, p, a[1], a[2]), q, b[1], b[2]), s |-> 1, t |-> Len(p) + 1] :
        p \in ShapesUpTo(MaxSmall), q \in ShapesUpTo(MaxSmall),
        a \in SourceKinds, b \in TargetKinds}

RootedShapes == {p \in ShapesUpTo(MaxNodes) : Len(ChildrenIn(p, 1)) = 2}

\* A rooted, labelled tree and what the external tool made of it.
DerivedPairs ==
    UNION {
       LET hs == ReadAs(<<>>, p, tipsAs, "uniq")
       IN UNION {
            {LET t == Unrooted(hs, 1, u, NoNode, how)
             IN [h |-> t.h, s |-> 1, t |-> t.node] : how \in {"same", "reverse", "rotate"}}
            \cup
            {LET t == Unrooted(hs, 1, u, NoNode, "same")
                 w == Wrapped(t.h, t.node)
             IN [h |-> w.h, s |-> 1, t |-> w.node]}
            : u \in Apexes(hs, 1)}
       : p \in RootedShapes, tipsAs \in {"fwd", "rev"}}

RootedUpTo(n) == {p \in ShapesUpTo(n) : Len(ChildrenIn(p, 1)) = 2}

\* A rooted, labelled tree and a larger rooted tree in which labels repeat.
RepeatedPairs ==
    {[h |-> ReadAs(ReadAs(<<>>, p, "fwd", "uniq"), q, "fwd", "twice"),
      s |-> 1, t |-> Len(p) + 1] :
        p \in RootedUpTo(MaxSmall + 1), q \in RootedUpTo(MaxRepeated)}

\* A rooted tree in which names repeat and a smaller rooted, labelled tree.
RepeatedSources ==
    {[h |-> ReadAs(ReadAs(<<>>, p, "mod2", "pair"), q, "fwd", "uniq"),
      s |-> 1, t |-> Len(p) + 1] :
        p \in RootedUpTo(MaxRepeatedSrc), q \in RootedUpTo(MaxSmall + 1)}

\* The tree of the notebook's tests, against itself.
GoldenPairs == {[h |-> Golden(<<>>), s |-> 1, t |-> 1]}

TipsIn(p) == Cardinality({j \in 1..Len(p) : ChildrenIn(p, j) = <<>>})

\* A rooted tree of two basal clades and any tree of as many tips whose
\* apex does not have two children: the taxa are the same, the topologies
\* need not agree.
UnrelatedPairs ==
    {[h |-> ReadAs(ReadAs(<<>>, pq[1], "fwd", "uniq"), pq[2], tipsAs, "none"),
      s |-> 1, t |-> Len(pq[1]) + 1] :
        pq \in {x \in RootedShapes \X ShapesUpTo(MaxUnrelated) :
                  /\ \A c \in Range(ChildrenIn(x[1], 1)) : ChildrenIn(x[1], c) # <<>>
                  /\ Len(ChildrenIn(x[2], 1)) # 2
                  /\ TipsIn(x[1]) = TipsIn(x[2])},
        tipsAs \in {"fwd", "rev"}}

\* One tree and no reference tree: the trees the primitives are called on.
SingleTrees ==
    {[h |-> ReadAs(<<>>, p, "fwd", "uniq"), s |-> NoNode, t |-> 1] :
        p \in ShapesUpTo(MaxSingle)}
    \cup {[h |-> Golden(<<>>), s |-> NoNode, t |-> 1]}

Primitives == {"walk_copy", "walk_copy (I)", "root_above"}
Stages == {"restore_rooting", "restore_node_labels", "restore_node_order"}

\* The trees read and the functions the caller applies to them.
Applying(scs, fs) == {[h |-> sc.h, s |-> sc.s, t |-> sc.t, calls |-> fs] : sc \in scs}

Scenarios ==
    Applying(SingleTrees, Primitives)
    \cup Applying(GoldenPairs \cup SmallPairs \cup DerivedPairs, Stages)
    \cup Applying(RepeatedPairs \cup RepeatedSources, {"restore_node_order"})
    \cup Applying(UnrelatedPairs, {"restore_rooting"})

---------------------------------------------------------------------------
(* The calls *)

Init ==
    \E sc \in Scenarios :
        /\ heap = sc.h
        /\ src = sc.s
        /\ trg = sc.t
        /\ cur = sc.t
        /\ op = "init"
        /\ args = <<>>
        /\ err = Ok
        /\ out = NoNode
        /\ trail = <<>>
        /\ calls = sc.calls

\* A call of one of the two primitives on a tree read alone.
Primitive(name, a, r) ==
    /\ op = "init"
    /\ src = NoNode
    /\ name \in calls
    /\ heap' = r.h
    /\ op' = name
    /\ args' = a
    /\ err' = r.err
    /\ out' = r.node
    /\ UNCHANGED <<src, trg, cur, trail, calls>>

CallWalkCopy ==
    \E node \in NodesOf(heap, trg), s \in NodesOf(heap, trg) \cup {NoNode} :
        Primitive("walk_copy", <<node, s>>, WalkCopy(heap, node, s))

\* The same call with the first of the two definitions of walk_copy.
CallWalkCopy1 ==
    \E node \in NodesOf(heap, trg), s \in NodesOf(heap, trg) \cup {NoNode} :
        Primitive("walk_copy (I)", <<node, s>>, WalkCopy1(heap, node, s))

CallRootAbove ==
    \E node \in NodesOf(heap, trg) :
        Primitive("root_above", <<node>>, RootAbove(heap, node, NoName))

\* A call of one stage of the pipeline on the source tree and the current
\* tree; the tree returned is the current tree of the next stage.
Stage(name, r) ==
    /\ err = Ok
    /\ src # NoNode
    /\ name \in calls
    /\ Len(trail) < MaxTrail
    /\ heap' = r.h
    /\ op' = name
    /\ args' = <<src, cur>>
    /\ err' = r.err
    /\ out' = r.node
    /\ cur' = IF r.err = Ok THEN r.node ELSE cur
    /\ trail' = IF r.err = Ok THEN Append(trail, name) ELSE trail
    /\ UNCHANGED <<src, trg, calls>>

CallRestoreRooting == Stage("restore_rooting", RestoreRooting(heap, src, cur))

CallRestoreNodeLabels == Stage("restore_node_labels", RestoreNodeLabels(heap, src, cur))

CallRestoreNodeOrder == Stage("restore_node_order", RestoreNodeOrder(heap, src, cur))

Next ==
    \/ CallWalkCopy
    \/ CallWalkCopy1
    \/ CallRootAbove
    \/ CallRestoreRooting
    \/ CallRestoreNodeLabels
    \/ CallRestoreNodeOrder

Spec == Init /\ [][Next]_vars

---------------------------------------------------------------------------
(* Reading trees off the heap *)

RECURSIVE Nested(_, _)
\* The tree below n as a value: <<name, length, children>>.
Nested(h, n) ==
    <<h[n].name, h[n].length,
      [i \in 1..Len(h[n].children) |-> Nested(h, h[n].children[i])]>>

\* The names of the tips at or below n.
Clade(h, n) == IF IsTip(h, n) THEN {h[n].name} ELSE TipNameSet(h, n)

---------------------------------------------------------------------------
(* Vocabulary of the properties *)

Pipeline == <<"restore_rooting", "restore_node_labels", "restore_node_order">>

\* The stages attempted so far, the failed one included.
Attempted ==
    IF err = Ok \/ op \in {"init", "walk_copy", "walk_copy (I)", "root_above"} THEN trail
    ELSE Append(trail, op)

IsPrefix(s, t) == Len(s) <= Len(t) /\ \A i \in 1..Len(s) : s[i] = t[i]

TipsOf(h, root) == {n \in NodesOf(h, root) : IsTip(h, n)}
InnerOf(h, root) == {n \in NodesOf(h, root) : ~IsTip(h, n)}

StrictlyRooted(h, root) == Len(h[root].children) = 2

UniqueTipNames(h, root) ==
    \A a, b \in TipsOf(h, root) : h[a].name = h[b].name => a = b

NonEmpty(name) == name \notin {NoName, ""}

\* The two-way split of the tips of the tree of root that the branch above
\* n makes.
Split(h, root, n) == {Clade(h, n), Clade(h, root) \ Clade(h, n)}

CountSplit(h, root, sp) ==
    Cardinality({n \in NodesOf(h, root) \ {root} : Split(h, root, n) = sp})

\* t is the tree of s without its root: an apex of three or more children,
\* the same tips, and branch for branch the same splits, the two basal
\* branches of s counting as one.
IsUnrootingOf(h, s, t) ==
    /\ StrictlyRooted(h, s)
    /\ Len(h[t].children) >= 3
    /\ UniqueTipNames(h, s) /\ UniqueTipNames(h, t)
    /\ Clade(h, s) = Clade(h, t)
    /\ Cardinality(NodesOf(h, t)) = Cardinality(NodesOf(h, s)) - 1
    /\ \A n \in NodesOf(h, s) \ {s} :
          LET sp == Split(h, s, n)
          IN CountSplit(h, t, sp) =
                CountSplit(h, s, sp) - (IF sp = Split(h, s, h[s].children[1]) THEN 1 ELSE 0)

\* The tip-name sets of the children of the apex.
BasalClades(h, root) == {Clade(h, c) : c \in Range(h[root].children)}

---------------------------------------------------------------------------
(* C1 *)

\* C1: for every strictly rooted tree S with unique tip names and every T
\* that is S without its root (apex of three or more children),
\* restore_rooting(S, T) returns a tree whose two root children carry the
\* tip-name sets of the two root children of S.
C1_RootingRestored ==
    (op = "restore_rooting" /\ args = <<src, trg>> /\ IsUnrootingOf(heap, src, trg))
        => /\ err = Ok
           /\ Len(heap[out].children) = 2
           /\ BasalClades(heap, out) = BasalClades(heap, src)

\* The same holds of the sources whose two basal clades have two or more
\* tips each: a basal tip of S is what restore_rooting fails on.
RootingRestoredOnClades ==
    (op = "restore_rooting" /\ args = <<src, trg>> /\ IsUnrootingOf(heap, src, trg)
       /\ \A c \in Range(heap[src].children) : Cardinality(TipNameSet(heap, c)) >= 2)
        => /\ err = Ok
           /\ Len(heap[out].children) = 2
           /\ BasalClades(heap, out) = BasalClades(heap, src)

---------------------------------------------------------------------------
(* C2 *)

RECURSIVE Labelled(_, _)
\* The tree below n without its lengths: <<name, children>>.
Labelled(h, n) ==
    <<h[n].name, [i \in 1..Len(h[n].children) |-> Labelled(h, h[n].children[i])]>>

\* s is strictly rooted, has no node of one child, no name twice and a
\* label on every internal node; t is s without its root and without a
\* label on any internal node, its children in any order.
IsUnlabelledUnrootingOf(h, s, t) ==
    /\ \A n \in InnerOf(h, t) : h[n].name = NoName
    /\ \A n \in InnerOf(h, s) : NonEmpty(h[n].name)
    /\ \A n \in NodesOf(h, s) : Len(h[n].children) # 1
    /\ \A a, b \in NodesOf(h, s) : h[a].name = h[b].name => a = b
    /\ IsUnrootingOf(h, s, t)

\* C2: on such S and T each stage of the pipeline restore_rooting,
\* restore_node_labels, restore_node_order returns, and the tree the
\* last stage returns has the topology, the labels and the child order of S.
C2_PipelineRoundTrip ==
    (Attempted # <<>> /\ IsPrefix(Attempted, Pipeline) /\ IsUnlabelledUnrootingOf(heap, src, trg))
        => /\ err = Ok
           /\ trail = Pipeline => Labelled(heap, cur) = Labelled(heap, src)

\* The round trip holds of the sources without a basal tip.
PipelineRoundTripOnClades ==
    (Attempted # <<>> /\ IsPrefix(Attempted, Pipeline) /\ IsUnlabelledUnrootingOf(heap, src, trg)
       /\ \A c \in Range(heap[src].children) : Cardinality(TipNameSet(heap, c)) >= 2)
        => /\ err = Ok
           /\ trail = Pipeline => Labelled(heap, cur) = Labelled(heap, src)

---------------------------------------------------------------------------
(* C3 *)

\* The outgroup and the ingroup of s: the tip names below its two basal nodes.
OutIn(h, s) ==
    {TipNameSet(h, c) : c \in Range(h[s].children)}

\* C3: whenever restore_rooting returns a tree for src and trg that pass
\* its three checks, the apex of that tree has exactly two children, whose
\* tip-name sets are the outgroup and the ingroup of src.
C3_RootingPostcondition ==
    (op = "restore_rooting" /\ err = Ok)
        => /\ Len(heap[out].children) = 2
           /\ BasalClades(heap, out) = OutIn(heap, args[1])

\* The postcondition holds of the targets whose apex has three or more
\* children; an apex of one child stays in the result as an unnamed tip.
PostconditionOnApexOfThree ==
    (op = "restore_rooting" /\ err = Ok /\ Len(heap[args[2]].children) >= 3)
        => /\ Len(heap[out].children) = 2
           /\ BasalClades(heap, out) = OutIn(heap, args[1])

---------------------------------------------------------------------------
(* C4 *)

\* C4: root_above(node) returns a tree whose apex has exactly two children
\* for every node that is not the apex of its tree, basal or derived, in a
\* strictly rooted tree or not.
C4_RootAboveReturns ==
    (op = "root_above" /\ args[1] # trg)
        => err = Ok /\ Len(heap[out].children) = 2

\* root_above returns for every other node: walk_copy refuses the basal
\* nodes of a strictly rooted tree, src being neither sibling nor child.
RootAboveReturnsOffBasal ==
    (op = "root_above" /\ args[1] # trg
        /\ ~(StrictlyRooted(heap, trg) /\ heap[args[1]].parent = trg))
        => err = Ok /\ Len(heap[out].children) = 2

---------------------------------------------------------------------------
(* C5 *)

\* C5: whenever root_above(node) returns, the two children of the new root
\* have the same length, half of node.length each, so that the two sum to
\* node.length.
C5_Midpoint ==
    (op = "root_above" /\ err = Ok)
        => LET left == heap[out].children[1]
               right == heap[out].children[2]
               whole == heap[args[1]].length
           IN /\ heap[left].length = heap[right].length
              /\ 2 * heap[left].length = whole
              /\ heap[left].length + heap[right].length = whole

\* root_above has returned for a node whose copy, and whose parent's copy,
\* had other lengths before: the parent is entered from below, and its own
\* branch is as long as the node's is not.
C5_Witness ==
    /\ op = "root_above" /\ err = Ok
    /\ heap[heap[args[1]].parent].parent # NoNode
    /\ heap[heap[args[1]].parent].length # heap[args[1]].length
    /\ heap[args[1]].length > 0

---------------------------------------------------------------------------
(* C6 *)

\* ((a:1.0,b:0.8)c:1.2,((d:0.8,e:0.6)f:1.2,(h:0.5,i:0.7)j:2.2)g:1.2);
GoldenAboveC ==
    <<NoName, NoLen,
      << <<"c", 24, << <<"a", 20, <<>>>>, <<"b", 16, <<>>>> >> >>,
         <<"g", 24,
           << <<"f", 24, << <<"d", 16, <<>>>>, <<"e", 12, <<>>>> >> >>,
              <<"j", 44, << <<"h", 10, <<>>>>, <<"i", 14, <<>>>> >> >> >> >> >> >>

IsGolden(h, root) == Nested(h, root) = Nested(Golden(<<>>), 1)

\* C6: on the tree of the notebook's test, root_above(c) returns the tree
\* of the test: names, lengths and child order, an unnamed root and no k.
C6_Golden ==
    (op = "root_above" /\ heap[args[1]].name = "c" /\ IsGolden(heap, trg))
        => err = Ok /\ Nested(heap, out) = GoldenAboveC

C6_Witness ==
    /\ op = "root_above" /\ heap[args[1]].name = "c" /\ IsGolden(heap, trg)
    /\ err = Ok
    /\ \A n \in NodesOf(heap, out) : heap[n].name # "k"

---------------------------------------------------------------------------
(* C7 *)

\* C7: no call changes a node that exists when it is made, whether it
\* returns or fails, and every node of the tree it returns is new.
C7_InputsUntouched ==
    [][/\ \A n \in 1..Len(heap) : heap'[n] = heap[n]
       /\ out' # NoNode => \A n \in NodesOf(heap', out') : n > Len(heap)]_vars

\* restore_node_order has returned a tree ordered otherwise than its input.
C7_Witness ==
    /\ op = "restore_node_order" /\ err = Ok
    /\ Labelled(heap, out) # Labelled(heap, args[2])

---------------------------------------------------------------------------
(* C8 *)

SourceNotRooted(h, s) == Len(h[s].children) # 2
TargetNotUnrooted(h, t) == Len(h[t].children) = 2
TaxaMismatch(h, s, t) == Clade(h, s) # Clade(h, t)

\* C8 as stated: each of the three conditions brings its own error,
\* whatever the other two are.
C8_EachCheckDecides ==
    op = "restore_rooting"
        => /\ SourceNotRooted(heap, args[1]) => err = ErrSourceNotRooted /\ out = NoNode
           /\ TargetNotUnrooted(heap, args[2]) => err = ErrTargetNotUnrooted /\ out = NoNode
           /\ TaxaMismatch(heap, args[1], args[2]) => err = ErrTaxaMismatch /\ out = NoNode

\* C8, amended: restore_rooting fails without a tree on each of the three
\* conditions, and the error is that of the first condition that holds, in
\* the order source, target, taxa.
C8_FirstCheckDecides ==
    op = "restore_rooting"
        => /\ SourceNotRooted(heap, args[1]) => err = ErrSourceNotRooted /\ out = NoNode
           /\ (~SourceNotRooted(heap, args[1]) /\ TargetNotUnrooted(heap, args[2]))
                 => err = ErrTargetNotUnrooted /\ out = NoNode
           /\ (~SourceNotRooted(heap, args[1]) /\ ~TargetNotUnrooted(heap, args[2])
                 /\ TaxaMismatch(heap, args[1], args[2]))
                 => err = ErrTaxaMismatch /\ out = NoNode

\* A source of three children and a target of two: the source decides.
C8_Witness ==
    /\ op = "restore_rooting"
    /\ Len(heap[args[1]].children) = 3
    /\ TargetNotUnrooted(heap, args[2])
    /\ TaxaMismatch(heap, args[1], args[2])
    /\ err = ErrSourceNotRooted

---------------------------------------------------------------------------
(* C9 *)

SourceLabels(h, s) == {h[n].name : n \in {m \in InnerOf(h, s) : NonEmpty(h[m].name)}}

\* Some labelled clade of s has no node of the same tips in t.
HasUnmatchedLabel(h, s, t) ==
    \E n \in InnerOf(h, s) :
        /\ NonEmpty(h[n].name)
        /\ \A m \in InnerOf(h, t) : Clade(h, m) # Clade(h, n)

HasDuplicateLabel(h, s) ==
    \E a, b \in InnerOf(h, s) : a # b /\ NonEmpty(h[a].name) /\ h[a].name = h[b].name

\* C9: every node of the tree restore_node_labels returns has the name it
\* has in trg or a label of an internal node of src, and a labelled clade
\* of src without a match in trg is no failure.
C9_LabelsFromSource ==
    op = "restore_node_labels"
        => /\ err = Ok =>
                LET new == Preorder(heap, out)
                    old == Preorder(heap, args[2])
                IN /\ Len(new) = Len(old)
                   /\ \A i \in 1..Len(new) :
                         \/ heap[new[i]].name = heap[old[i]].name
                         \/ heap[new[i]].name \in SourceLabels(heap, args[1])
           /\ (HasUnmatchedLabel(heap, args[1], args[2]) /\ ~HasDuplicateLabel(heap, args[1]))
                 => err = Ok

\* A label was given, another found no node, and the call returned.
C9_Witness ==
    /\ op = "restore_node_labels" /\ err = Ok
    /\ HasUnmatchedLabel(heap, args[1], args[2])
    /\ Labelled(heap, out) # Labelled(heap, args[2])

---------------------------------------------------------------------------
(* C10 *)

\* C10: restore_node_labels fails with the duplicate-label error exactly
\* when two internal nodes of src, the apex included, have the same
\* non-empty label; nodes without a label or with the empty label never
\* bring it.
C10_DuplicateLabel ==
    op = "restore_node_labels"
        => (err = ErrDuplicateLabel <=> HasDuplicateLabel(heap, args[1]))

\* The apex of src shares its label with another internal node.
C10_Witness ==
    /\ op = "restore_node_labels" /\ err = ErrDuplicateLabel
    /\ \E n \in InnerOf(heap, args[1]) \ {args[1]} : heap[n].name = heap[args[1]].name

\* Two internal nodes of src have the empty label, and the call returned.
C10_WitnessEmpty ==
    /\ op = "restore_node_labels" /\ err = Ok
    /\ \E a, b \in InnerOf(heap, args[1]) : a # b /\ heap[a].name = "" /\ heap[b].name = ""

---------------------------------------------------------------------------
(* C11 *)

\* No two nodes of the tree have the same name.
UniqueNames(h, root) ==
    \A a, b \in NodesOf(h, root) : h[a].name = h[b].name => a = b

\* restore_node_order has returned R = out for args, and is called again
\* on the same src and on R.
OrderedAgain ==
    /\ op = "restore_node_order" /\ err = Ok
    /\ op' = "restore_node_order"

\* C11 as stated: restore_node_order is idempotent: called on src and on
\* the tree R it returned for src and trg, it returns, and returns a tree
\* equal to R in topology, names, lengths and child order.
C11_OrderIdempotent ==
    [][OrderedAgain => (err' = Ok /\ Nested(heap', out') = Nested(heap, out))]_vars

\* C11, amended: the same, for src and trg in each of which no two nodes
\* have the same name.
C11_OrderIdempotentOnUniqueNames ==
    [][(OrderedAgain /\ UniqueNames(heap, args[1]) /\ UniqueNames(heap, args[2]))
          => (err' = Ok /\ Nested(heap', out') = Nested(heap, out))]_vars

\* Names are unique in src and trg, the first call changed the order of
\* trg, and the second has returned.
C11_Witness ==
    /\ trail = <<"restore_node_order", "restore_node_order">>
    /\ op = "restore_node_order" /\ err = Ok
    /\ UniqueNames(heap, src) /\ UniqueNames(heap, trg)
    /\ Labelled(heap, args[2]) # Labelled(heap, trg)

---------------------------------------------------------------------------
(* C12 *)

\* Some internal node of s has no name or the empty name.
HasUnlabelled(h, s) == \E n \in InnerOf(h, s) : ~NonEmpty(h[n].name)

\* C12: restore_node_order fails with the missing-label error whenever
\* some internal node of src has no name or the empty name, or two
\* internal nodes of src have the same label.
C12_MissingLabel ==
    (op = "restore_node_order"
        /\ (HasUnlabelled(heap, args[1]) \/ HasDuplicateLabel(heap, args[1])))
        => err = ErrEmptyLabel

\* The check is made node by node along the preorder of src: an apex
\* without a label is reported before anything else is done.
MissingLabelWhenReached ==
    (op = "restore_node_order" /\ ~NonEmpty(heap[args[1]].name)
        /\ ~IsTip(heap, args[1]))
        => err = ErrEmptyLabel

\* restore_node_order has returned a tree for a src in which two internal
\* nodes share their label.
ReturnsOnDuplicateLabel ==
    op = "restore_node_order" /\ err = Ok /\ HasDuplicateLabel(heap, args[1])

---------------------------------------------------------------------------
(* C13 *)

\* The names of the nodes in the sequence cs.
NamesOf(h, cs) == {h[cs[i]].name : i \in 1..Len(cs)}

\* Some internal label of s names no node of the tree of t.
LabelUnfound(h, s, t) ==
    \E n \in InnerOf(h, s) :
        /\ NonEmpty(h[n].name)
        /\ \A m \in NodesOf(h, t) : h[m].name # h[n].name

\* Some child of an internal node of s has a name that no child of the
\* node of t with the same label carries.
ChildUnmatched(h, s, t) ==
    \E n \in InnerOf(h, s) :
        /\ NonEmpty(h[n].name)
        /\ Find(h, t, h[n].name) # NoNode
        /\ ~(NamesOf(h, h[n].children)
                \subseteq NamesOf(h, h[Find(h, t, h[n].name)].children))

\* C13 as stated: each of the two conditions brings its own error, and
\* no tree.
C13_EachFailureReported ==
    op = "restore_node_order"
        => /\ LabelUnfound(heap, args[1], args[2])
                => err = ErrMissingNode /\ out = NoNode
           /\ ChildUnmatched(heap, args[1], args[2])
                => err = ErrKey /\ out = NoNode

\* Some child of an internal node of s has a name that no child of any
\* node of t with the same label carries; a label that names no node
\* of t is a case of it.
Unrestorable(h, s, t) ==
    \E n \in InnerOf(h, s) :
        /\ NonEmpty(h[n].name)
        /\ \A m \in NodesOf(h, t) :
              h[m].name = h[n].name
                 => ~(NamesOf(h, h[n].children) \subseteq NamesOf(h, h[m].children))

\* The copy of trg that a call of restore_node_order has made: the newest
\* nodes of the heap, as many as trg has.
CopyOfTrg == Len(heap) - Cardinality(NodesOf(heap, args[2])) + 1

\* C13, amended: restore_node_order returns no tree when some internal
\* label of src names no node of trg or some child of an internal node of
\* src has a name that no child of a same-labelled node of trg carries.
\* The error is decided at the first internal node of src, in preorder,
\* that cannot be done: for the apex of src it is the error of the apex;
\* the label-not-found error is raised only when a label of src names no
\* node of the copy, the child-mismatch error, on trees without a name
\* twice, only when a child of an internal node of src has a name that no
\* child of the same-labelled node of trg carries.
C13_FirstFailureReported ==
    op = "restore_node_order"
        => LET s == args[1]
               t == args[2]
               apex == Find(heap, t, heap[s].name)
           IN /\ Unrestorable(heap, s, t)
                   => out = NoNode /\ err \in {ErrEmptyLabel, ErrMissingNode, ErrKey}
              /\ (~IsTip(heap, s) /\ NonEmpty(heap[s].name) /\ apex = NoNode)
                   => err = ErrMissingNode
              /\ (~IsTip(heap, s) /\ NonEmpty(heap[s].name) /\ apex # NoNode
                    /\ ~(NamesOf(heap, heap[s].children)
                            \subseteq NamesOf(heap, heap[apex].children)))
                   => err = ErrKey
              /\ err = ErrMissingNode
                   => /\ out = NoNode
                      /\ LabelUnfound(heap, s, CopyOfTrg)
              /\ err = ErrKey
                   => /\ out = NoNode
                      /\ (UniqueNames(heap, s) /\ UniqueNames(heap, t))
                            => ChildUnmatched(heap, s, t)

\* The child-mismatch error, raised below the apex of src: the apex was
\* found and given its children in the order of src.
C13_Witness ==
    /\ op = "restore_node_order" /\ err = ErrKey
    /\ Find(heap, CopyOfTrg, heap[args[1]].name) # NoNode
    /\ [i \in 1..Len(heap[args[1]].children) |-> heap[heap[args[1]].children[i]].name]
         = [i \in 1..Len(heap[Find(heap, CopyOfTrg, heap[args[1]].name)].children) |->
               heap[heap[Find(heap, CopyOfTrg, heap[args[1]].name)].children[i]].name]

\* The label-not-found error: the label of the apex of src is not in trg.
C13_WitnessNotFound ==
    /\ op = "restore_node_order" /\ err = ErrMissingNode
    /\ LabelUnfound(heap, args[1], args[2])

---------------------------------------------------------------------------
(* C14 *)

\* C14: the tree restore_rooting returns has the tip names of trg, as a
\* set and in number, whether the apex of trg has one child or three or
\* more.
C14_TipsPreserved ==
    (op = "restore_rooting" /\ err = Ok)
        => /\ TipNameSet(heap, out) = TipNameSet(heap, args[2])
           /\ CountTips(heap, out) = CountTips(heap, args[2])

\* The tips are preserved when the apex of trg has three or more children;
\* an apex of one child becomes one more tip, without a name.
TipsPreservedOnApexOfThree ==
    (op = "restore_rooting" /\ err = Ok /\ Len(heap[args[2]].children) >= 3)
        => /\ TipNameSet(heap, out) = TipNameSet(heap, args[2])
           /\ CountTips(heap, out) = CountTips(heap, args[2])

---------------------------------------------------------------------------
(* C15 *)

\* node is the apex of a strictly rooted tree.
ApexOfRooted(h, node) == IsRoot(h, node) /\ Len(h[node].children) = 2

\* node is a basal node of a strictly rooted tree.
BasalOfRooted(h, node) == ~IsRoot(h, node) /\ ApexOfRooted(h, h[node].parent)

\* s is no node from which node may be entered.
InvalidMove(h, node, s) ==
    IF BasalOfRooted(h, node)
    THEN s \notin Range(Siblings(h, node)) \cup Range(h[node].children)
    ELSE s # h[node].parent /\ s \notin Range(h[node].children)

---------------------------------------------------------------------------
(* C16 *)

\* C16: walk_copy(node, src) with node the apex of a strictly rooted tree
\* fails with the root-of-rooted-tree error whatever src is, a child, a
\* node that is no neighbour or no node at all; it returns no node and
\* never fails with the not-neighbors error there.
C16_RootOfRooted ==
    (op = "walk_copy" /\ ApexOfRooted(heap, args[1]))
        => err = ErrRootOfRooted /\ out = NoNode

\* The apex of a strictly rooted tree, entered from a child.
C16_Witness ==
    /\ op = "walk_copy" /\ ApexOfRooted(heap, args[1])
    /\ args[2] \in Range(heap[args[1]].children)
    /\ err = ErrRootOfRooted

\* The same apex with no src, and with a src that is no neighbour.
C16_WitnessNoSrc ==
    /\ op = "walk_copy" /\ ApexOfRooted(heap, args[1])
    /\ args[2] = NoNode
    /\ err = ErrRootOfRooted

C16_WitnessNoNeighbor ==
    /\ op = "walk_copy" /\ ApexOfRooted(heap, args[1])
    /\ args[2] # NoNode /\ heap[args[2]].parent \notin {NoNode, args[1]}
    /\ err = ErrRootOfRooted

---------------------------------------------------------------------------
(* C17 *)

\* The nodes that the walk goes on to from node, entered from s, each of
\* them entered from node: the children other than s, then the parent on
\* a move up from a node that is not the apex, the sibling on a move top.
Onward(h, node, s) ==
    LET move == Move(h, node, s)
    IN Without(h[node].children, s)
       \o (IF move = "up" /\ ~IsRoot(h, node) THEN <<h[node].parent>>
           ELSE IF move = "top" THEN <<Siblings(h, node)[1]>>
           ELSE <<>>)

\* The length the rule of the walk gives the copy of node entered from s.
RuledLength(h, node, s) ==
    LET move == Move(h, node, s)
    IN IF move = "down" THEN h[node].length
       ELSE IF move = "bottom" THEN h[s].length + h[node].length
       ELSE h[s].length

RECURSIVE LengthsAsRuled(_, _, _, _)
\* res and every node below it carry the ruled length, res being read as
\* the copy of node entered from s and its i-th child as the copy of the
\* i-th node the walk goes on to.
LengthsAsRuled(h, node, s, res) ==
    /\ h[res].length = RuledLength(h, node, s)
    /\ \A i \in DOMAIN Onward(h, node, s) \cap DOMAIN h[res].children :
           LengthsAsRuled(h, Onward(h, node, s)[i], node, h[res].children[i])

\* C17: the node walk_copy returns has the length of node on a move down,
\* the sum of the lengths of src and node on a move bottom and the length
\* of src on a move up or top; so has every node created below it.
C17_Lengths ==
    (op = "walk_copy" /\ err = Ok)
        => LengthsAsRuled(heap, args[1], args[2], out)

\* A walk that goes up from a node below a basal node of a rooted tree:
\* up, then top, then bottom, then down.
C17_Witness ==
    /\ op = "walk_copy" /\ err = Ok
    /\ Move(heap, args[1], args[2]) = "up"
    /\ ~IsRoot(heap, args[1])
    /\ BasalOfRooted(heap, heap[args[1]].parent)
    /\ ~IsTip(heap, Siblings(heap, heap[args[1]].parent)[1])

---------------------------------------------------------------------------
(* C18 *)

RECURSIVE ChildrenAsRuled(_, _, _, _)
\* res has the name of node and its children, each with res as its parent,
\* are, in order, the copies of the nodes the walk goes on to.
ChildrenAsRuled(h, node, s, res) ==
    /\ h[res].name = h[node].name
    /\ Len(h[res].children) = Len(Onward(h, node, s))
    /\ \A i \in DOMAIN Onward(h, node, s) :
           /\ h[h[res].children[i]].parent = res
           /\ ChildrenAsRuled(h, Onward(h, node, s)[i], node, h[res].children[i])

\* C18: the children of the node walk_copy returns are the copies of the
\* children of node other than src, in their order, followed by one more
\* child only on a move up from a node that is not the apex (the copy of
\* the parent entered from node) or on a move top (the copy of the sibling
\* entered from node); on a move down or bottom they are the copies of all
\* the children of node and nothing else.
C18_Children ==
    (op = "walk_copy" /\ err = Ok)
        => /\ ChildrenAsRuled(heap, args[1], args[2], out)
           /\ Move(heap, args[1], args[2]) \in {"down", "bottom"}
                  => Len(heap[out].children) = Len(heap[args[1]].children)
           /\ (Move(heap, args[1], args[2]) = "up" /\ IsRoot(heap, args[1]))
                  => Len(heap[out].children) = Len(heap[args[1]].children) - 1
           /\ (Move(heap, args[1], args[2]) = "top"
                 \/ (Move(heap, args[1], args[2]) = "up" /\ ~IsRoot(heap, args[1])))
                  => Len(heap[out].children) = Len(heap[args[1]].children)

\* A move up from a node with two more children that is not the apex.
C18_Witness ==
    /\ op = "walk_copy" /\ err = Ok
    /\ Move(heap, args[1], args[2]) = "up"
    /\ ~IsRoot(heap, args[1])
    /\ Len(heap[args[1]].children) >= 3

\* A move top, and a move up from the apex of an unrooted tree.
C18_WitnessTop ==
    /\ op = "walk_copy" /\ err = Ok
    /\ Move(heap, args[1], args[2]) = "top"
    /\ Len(heap[args[1]].children) >= 2

C18_WitnessApex ==
    /\ op = "walk_copy" /\ err = Ok
    /\ Move(heap, args[1], args[2]) = "up"
    /\ IsRoot(heap, args[1])
    /\ Len(heap[args[1]].children) >= 3

---------------------------------------------------------------------------
(* C19 *)

\* The nodes below res that are copies of n: the names of the trees read
\* alone are unique, so a copy of n is a node with the name of n.
CopiesOf(h, n, res) ==
    {c \in NodesOf(h, res) \ {res} : h[c].name = h[n].name}

\* The two basal branches of the rooted tree at apex appear below res as
\* one branch: the copy of one basal node is a child of the copy of the
\* other and its length is the sum of the two basal lengths.
BasalBranchesMerged(h, apex, res) ==
    \E b \in Range(h[apex].children), c \in NodesOf(h, res) \ {res} :
        /\ h[c].name = h[b].name
        /\ h[c].parent # res
        /\ h[h[c].parent].name = h[Siblings(h, b)[1]].name
        /\ h[c].length = h[b].length + h[Siblings(h, b)[1]].length

\* C19: when root_above returns, the nodes below the new root are new
\* nodes, one copy of every node of the tree given, except that the apex
\* of a rooted tree has no copy; and the two basal branches of a rooted
\* tree appear as one branch with the sum of their lengths.
C19_EachNodeCopiedOnce ==
    (op = "root_above" /\ err = Ok)
        => /\ (NodesOf(heap, out) \ {out}) \cap NodesOf(heap, trg) = {}
           /\ \A n \in NodesOf(heap, trg) :
                  Cardinality(CopiesOf(heap, n, out))
                      = IF n = trg /\ ApexOfRooted(heap, trg) THEN 0 ELSE 1
           /\ Cardinality(NodesOf(heap, out) \ {out})
                  = Cardinality(NodesOf(heap, trg))
                        - (IF ApexOfRooted(heap, trg) THEN 1 ELSE 0)
           /\ ApexOfRooted(heap, trg) => BasalBranchesMerged(heap, trg, out)

\* A rooted tree rooted anew, and an unrooted one.
C19_Witness ==
    /\ op = "root_above" /\ err = Ok
    /\ ApexOfRooted(heap, trg)
    /\ \A b \in Range(heap[trg].children) : ~IsTip(heap, b)

C19_WitnessUnrooted ==
    /\ op = "root_above" /\ err = Ok
    /\ Len(heap[trg].children) >= 3

---------------------------------------------------------------------------
(* C20 *)

RECURSIVE BasalAbove(_, _)
\* The basal node that is node or is above it; node is not the apex.
BasalAbove(h, node) ==
    IF IsRoot(h, h[node].parent) THEN node ELSE BasalAbove(h, h[node].parent)

\* The names of the nodes of ns, in order.
NamesIn(h, ns) == [i \in DOMAIN ns |-> h[ns[i]].name]

\* c is below res what is left of apex when the tree is walked from node:
\* it has the name of apex, and its children are the copies of the children
\* of apex other than the one the walk came from, in their order.
KeptAs(h, apex, node, res, c) ==
    /\ c \in NodesOf(h, res) \ {res}
    /\ c \notin NodesOf(h, apex)
    /\ h[c].name = h[apex].name
    /\ NamesIn(h, h[c].children)
           = NamesIn(h, Without(h[apex].children, BasalAbove(h, node)))

\* root_above has returned on a node of a tree whose apex does not have
\* two children.
RootedAboveInUnrooted ==
    op = "root_above" /\ err = Ok /\ ~ApexOfRooted(heap, trg)

\* C20 as stated: the apex of an unrooted tree is kept as an internal
\* node, a node with at least one child, with its name and with its
\* children other than the one the walk came from.
C20_ApexKeptInternal ==
    RootedAboveInUnrooted
        => \E c \in NodesOf(heap, out) :
               KeptAs(heap, trg, args[1], out, c) /\ ~IsTip(heap, c)

\* C20, amended: the apex of an unrooted tree is kept as an ordinary node
\* with its name and with its children other than the one the walk came
\* from: an internal node when the apex has three or more children, a tip
\* when it has one child.
C20_ApexKept ==
    RootedAboveInUnrooted
        => \E c \in NodesOf(heap, out) :
               /\ KeptAs(heap, trg, args[1], out, c)
               /\ IsTip(heap, c) <=> Len(heap[trg].children) = 1

\* The apex of three children kept as an internal node below the new root.
C20_Witness ==
    /\ RootedAboveInUnrooted
    /\ Len(heap[trg].children) >= 3
    /\ \E c \in NodesOf(heap, out) :
           KeptAs(heap, trg, args[1], out, c) /\ Len(heap[c].children) >= 2

\* The apex of one child kept as a tip.
C20_WitnessTip ==
    /\ RootedAboveInUnrooted
    /\ Len(heap[trg].children) = 1
    /\ \E c \in NodesOf(heap, out) :
           KeptAs(heap, trg, args[1], out, c) /\ IsTip(heap, c)

---------------------------------------------------------------------------
(* C21 *)

\* The labelled internal nodes of src whose tips are those of n, in the
\* order in which the first loop meets them.
SameTaxaIn(h, s, n) ==
    SelectSeq(NonTips(h, s),
              LAMBDA m : IsLabel(h[m].name) /\ TipNameSet(h, m) = TipNameSet(h, n))

\* restore_node_labels has returned; the i-th node of the result in
\* preorder is the copy of the i-th node of trg.
LabelsRestored == op = "restore_node_labels" /\ err = Ok

C21_WitnessTwoLabels ==
    /\ LabelsRestored
    /\ \E n \in InnerOf(heap, out) : Len(SameTaxaIn(heap, args[1], n)) >= 2

---------------------------------------------------------------------------
(* C22 *)

\* restore_node_order has returned.
OrderRestored == op = "restore_node_order" /\ err = Ok

\* Some node of the tree at res has the name of n and the names of the
\* children of n, in the order of n.
OrderedAs(h, n, res) ==
    \E m \in NodesOf(h, res) :
        /\ h[m].name = h[n].name
        /\ NamesIn(h, h[m].children) = NamesIn(h, h[n].children)

\* C22: when restore_node_order returns, each internal node of src has in
\* the result a node of its label whose children are named as its own
\* children, in the same order.
C22_OrderOfSource ==
    OrderRestored => \A n \in InnerOf(heap, args[1]) : OrderedAs(heap, n, out)

\* C22, amended: when restore_node_order returns for a src and a trg in
\* each of which no two nodes have the same name, each internal node of
\* src has in the result exactly one node of its label, and the children
\* of that node are named as its own children, in the same order.
C22_OrderOfSourceOnUniqueNames ==
    (OrderRestored /\ UniqueNames(heap, args[1]) /\ UniqueNames(heap, args[2]))
        => \A n \in InnerOf(heap, args[1]) :
              /\ OrderedAs(heap, n, out)
              /\ Cardinality({m \in NodesOf(heap, out) : heap[m].name = heap[n].name}) = 1

\* The order of the children of a node below the apex is changed to that
\* of src.
C22_Witness ==
    /\ OrderRestored /\ UniqueNames(heap, args[1]) /\ UniqueNames(heap, args[2])
    /\ \E n \in InnerOf(heap, args[1]), m \in InnerOf(heap, args[2]) :
           /\ n # args[1]
           /\ heap[m].name = heap[n].name
           /\ Len(heap[n].children) >= 2
           /\ NamesIn(heap, heap[m].children) # NamesIn(heap, heap[n].children)

\* With unique names in trg alone, or in src alone, the order of src is
\* not always found in the result.
OrderOfSourceOnUniqueTarget ==
    (OrderRestored /\ UniqueNames(heap, args[2]))
        => \A n \in InnerOf(heap, args[1]) : OrderedAs(heap, n, out)

OrderOfSourceOnUniqueSource ==
    (OrderRestored /\ UniqueNames(heap, args[1]))
        => \A n \in InnerOf(heap, args[1]) : OrderedAs(heap, n, out)

---------------------------------------------------------------------------
(* C23 *)

\* The place of a tip name in the alphabet; TipLetters are in that order.
LetterRank(name) == CHOOSE i \in DOMAIN TipLetters : TipLetters[i] = name

\* The least tip name of a clade, by its rank.
LeastIn(names) == CHOOSE i \in {LetterRank(x) : x \in names} :
                      \A j \in {LetterRank(x) : x \in names} : i <= j

\* The outgroup by the rule: the basal clade of fewer tips and, of two
\* clades of as many tips, the one with the least tip name.
OutgroupByRule(h, s) ==
    LET c1 == Clade(h, h[s].children[1])
        c2 == Clade(h, h[s].children[2])
    IN IF Cardinality(c1) < Cardinality(c2) THEN c1
       ELSE IF Cardinality(c2) < Cardinality(c1) THEN c2
       ELSE IF LeastIn(c1) < LeastIn(c2) THEN c1 ELSE c2

\* restore_rooting was called on trees that pass its three checks, so
\* that an outgroup was chosen.
OutgroupChosen ==
    op = "restore_rooting" /\ RootingChecks(heap, args[1], args[2]) = Ok

\* The two basal nodes of src are clades of as many tips, two or more.
BasalTie(h, s) ==
    /\ ~IsTip(h, h[s].children[1]) /\ ~IsTip(h, h[s].children[2])
    /\ CountTips(h, h[s].children[1]) = CountTips(h, h[s].children[2])

\* C23: the outgroup of restore_rooting is the basal clade of src of fewer
\* tips and, when the two have as many tips, the one with the least tip
\* name, whatever the order of the two basal nodes.
C23_OutgroupByRule ==
    OutgroupChosen => Outgroup(heap, args[1]) = OutgroupByRule(heap, args[1])

\* The same for a src of two basal clades of different sizes: there the
\* outgroup is the smaller clade.
OutgroupIsSmallerClade ==
    (/\ OutgroupChosen
     /\ ~IsTip(heap, heap[args[1]].children[1])
     /\ ~IsTip(heap, heap[args[1]].children[2])
     /\ ~BasalTie(heap, args[1]))
        => Outgroup(heap, args[1]) = OutgroupByRule(heap, args[1])

\* On a tie the outgroup is the first basal clade, whatever its names.
OutgroupOnTieIsFirst ==
    (OutgroupChosen /\ BasalTie(heap, args[1]))
        => Outgroup(heap, args[1]) = Clade(heap, heap[args[1]].children[1])

\* A tie in which the second basal clade has the least tip name; the call
\* returns, with the first clade as the outgroup.
TieTakesFirstClade ==
    /\ OutgroupChosen /\ err = Ok /\ BasalTie(heap, args[1])
    /\ OutgroupByRule(heap, args[1]) = Clade(heap, heap[args[1]].children[2])
    /\ Outgroup(heap, args[1]) = Clade(heap, heap[args[1]].children[1])

---------------------------------------------------------------------------
(* C24 *)

\* restore_rooting was called on trees that pass its three checks and the
\* lowest common ancestor of the outgroup in trg, hence in its copy, is the
\* apex.
OutgroupSplit ==
    /\ OutgroupChosen
    /\ Lca(heap, args[2], Outgroup(heap, args[1])).err = Ok
    /\ Lca(heap, args[2], Outgroup(heap, args[1])).node = args[2]

\* The tree rooted at the parent of the first tip that is not in the
\* outgroup, and the lowest common ancestor of the outgroup in it.
Swapped ==
    RootAt(heap, heap[NotInOutgroup(heap, args[2], Outgroup(heap, args[1]))[1]].parent)

LcaAfterSwap == Lca(Swapped.h, Swapped.node, Outgroup(heap, args[1]))

\* C24 as stated: whenever the outgroup is split over the branches of the
\* apex, the lowest common ancestor found after the swap is not the apex,
\* and restore_rooting returns a tree.
C24_RecoverySucceeds ==
    OutgroupSplit
        => /\ LcaAfterSwap.err = Ok /\ LcaAfterSwap.node # Swapped.node
           /\ err = Ok /\ out # NoNode

\* The tips that are not in the outgroup are the tips of a node of trg.
IngroupIsClade ==
    \E n \in NodesOf(heap, args[2]) :
        Clade(heap, n) = TipNameSet(heap, args[2]) \ Outgroup(heap, args[1])

\* C24, amended: the same, when the tips that are not in the outgroup are
\* the tips of a node of trg.
C24_RecoverySucceedsOnClade ==
    (OutgroupSplit /\ IngroupIsClade)
        => /\ LcaAfterSwap.err = Ok /\ LcaAfterSwap.node # Swapped.node
           /\ err = Ok /\ out # NoNode

\* The outgroup is split, the ingroup is a clade of trg, and a tree is
\* returned.
C24_Witness ==
    OutgroupSplit /\ IngroupIsClade /\ err = Ok /\ out # NoNode

\* The outgroup is split and the ingroup is no clade of trg: the swap
\* leaves the lowest common ancestor at the apex and root_above fails.
RecoveryFails ==
    /\ OutgroupSplit /\ ~IngroupIsClade
    /\ LcaAfterSwap.node = Swapped.node
    /\ err = ErrAttribute

---------------------------------------------------------------------------
(* C25 *)

RECURSIVE LengthUpTo(_, _, _)
\* The sum of the branch lengths from n up to its ancestor a.
LengthUpTo(h, n, a) ==
    IF n = a THEN 0 ELSE h[n].length + LengthUpTo(h, h[n].parent, a)

\* The deepest node that is above a and above b, or is one of them.
Meet(h, a, b) ==
    CHOOSE m \in {x \in 1..Len(h) : IsAncestorOrSelf(h, x, a) /\ IsAncestorOrSelf(h, x, b)} :
        \A x \in 1..Len(h) :
            (IsAncestorOrSelf(h, x, a) /\ IsAncestorOrSelf(h, x, b))
                => IsAncestorOrSelf(h, x, m)

\* The sum of the branch lengths on the path between a and b.
PathLength(h, a, b) ==
    LengthUpTo(h, a, Meet(h, a, b)) + LengthUpTo(h, b, Meet(h, a, b))

\* The tip of the tree at root that has the name of tip a.
TipNamedAs(h, root, a) ==
    CHOOSE t \in TipsOf(h, root) : h[t].name = h[a].name

\* C25: when root_above returns, the path between any two tips of the
\* tree given is as long in the result as it was.
C25_PathLengths ==
    (op = "root_above" /\ err = Ok)
        => \A a, b \in TipsOf(heap, trg) :
              PathLength(heap, TipNamedAs(heap, out, a), TipNamedAs(heap, out, b))
                  = PathLength(heap, a, b)

\* Two tips on either side of the apex of a rooted tree, and on either
\* side of the new root.
C25_Witness ==
    /\ op = "root_above" /\ err = Ok
    /\ ApexOfRooted(heap, trg)
    /\ \E a, b \in TipsOf(heap, trg) :
           /\ Meet(heap, a, b) = trg
           /\ Meet(heap, TipNamedAs(heap, out, a), TipNamedAs(heap, out, b)) = out
           /\ PathLength(heap, a, b) > 0

---------------------------------------------------------------------------
(* C26 *)

\* What a call of walk_copy made of node and src: the error, or the tree
\* returned, as a value.
Outcome(r) == IF r.err # Ok THEN <<r.err>> ELSE <<Ok, Nested(r.h, r.node)>>

\* C26: on every tree, node and src, the two definitions of walk_copy
\* both fail with the same error or both return equal trees.
C26_SolutionsAgree ==
    op \in {"walk_copy", "walk_copy (I)"}
        => Outcome(WalkCopy1(heap, args[1], args[2]))
               = Outcome(WalkCopy(heap, args[1], args[2]))

\* They agree whenever src is a node, and on every node but the apex of a
\* tree that is not rooted when src is None.
SolutionsAgreeOffApex ==
    (/\ op \in {"walk_copy", "walk_copy (I)"}
     /\ ~(args[2] = NoNode /\ IsRoot(heap, args[1]) /\ ~ApexOfRooted(heap, args[1])))
        => /\ Outcome(WalkCopy1(heap, args[1], args[2]))
                  = Outcome(WalkCopy(heap, args[1], args[2]))
           /\ Outcome([h |-> heap, node |-> out, err |-> err])
                  = Outcome(WalkCopy(heap, args[1], args[2]))

\* On that apex with src None the first fails and the second returns a
\* copy of the whole tree.
SolutionsDifferAtApex ==
    (/\ op \in {"walk_copy", "walk_copy (I)"}
     /\ args[2] = NoNode /\ IsRoot(heap, args[1]) /\ ~ApexOfRooted(heap, args[1]))
        => /\ WalkCopy1(heap, args[1], args[2]).err = ErrNotNeighbors
           /\ Outcome(WalkCopy(heap, args[1], args[2]))
                  = <<Ok, Nested(heap, args[1])>>

\* The first definition has walked up, top, bottom and down and returned
\* the tree that the second returns.
SolutionsAgreeOnWalk ==
    /\ op = "walk_copy (I)" /\ err = Ok
    /\ Move(heap, args[1], args[2]) = "up"
    /\ ~IsRoot(heap, args[1])
    /\ BasalOfRooted(heap, heap[args[1]].parent)
    /\ ~IsTip(heap, Siblings(heap, heap[args[1]].parent)[1])
    /\ Outcome(WalkCopy(heap, args[1], args[2])) = <<Ok, Nested(heap, out)>>

---------------------------------------------------------------------------
(* C27 *)

RECURSIVE Entered(_, _, _, _)
RECURSIVE EnteredEach(_, _, _, _)
\* The calls of one walk, in the order in which they are made, each as
\* <<node, src, src of the caller>>: the call on node from s, made by a
\* caller that was itself entered from `before`, and the calls it makes.
Entered(h, node, s, before) ==
    <<<<node, s, before>>>> \o EnteredEach(h, Onward(h, node, s), node, s)
EnteredEach(h, ns, from, before) ==
    IF ns = <<>> THEN <<>>
    ELSE Entered(h, Head(ns), from, before) \o EnteredEach(h, Tail(ns), from, before)

\* walk_copy has returned and every node of the result was made by one of
\* the calls of the walk: the nodes of the heap beyond the tree read are
\* the nodes of the result, named in preorder as the nodes entered.
Walked ==
    /\ op = "walk_copy" /\ err = Ok
    /\ Len(heap) - Cardinality(NodesOf(heap, trg)) = Len(Preorder(heap, out))

\* C27: a walk ends: every call it makes is on a neighbour of the node of
\* the caller other than the one the caller was entered from, no node is
\* entered twice, and the calls are no more than the nodes of the tree.
C27_WalkEnds ==
    (op = "walk_copy" /\ err = Ok)
        => LET calls1 == Entered(heap, args[1], args[2], NoNode)
           IN /\ Walked
              /\ NamesIn(heap, Preorder(heap, out))
                     = [i \in DOMAIN calls1 |-> heap[calls1[i][1]].name]
              /\ \A i \in DOMAIN calls1 \ {1} :
                     /\ Move(heap, calls1[i][1], calls1[i][2]) # "n/a"
                     /\ calls1[i][1] # calls1[i][3]
              /\ \A i, j \in DOMAIN calls1 :
                     calls1[i][1] = calls1[j][1] => i = j
              /\ Len(calls1) <= Cardinality(NodesOf(heap, trg))

\* A walk up from a tip of a rooted tree, below the basal nodes, enters
\* every node but the tip and the apex.
C27_Witness ==
    /\ Walked
    /\ ApexOfRooted(heap, trg) /\ IsTip(heap, args[2])
    /\ Move(heap, args[1], args[2]) = "up"
    /\ ~BasalOfRooted(heap, args[1])
    /\ Len(Preorder(heap, out)) = Cardinality(NodesOf(heap, trg)) - 2

\* A walk down from the apex enters every node: as many calls as nodes.
C27_WitnessAll ==
    /\ Walked
    /\ args[1] = trg /\ args[2] = NoNode
    /\ Len(Preorder(heap, out)) = Cardinality(NodesOf(heap, trg))
    /\ Len(Preorder(heap, out)) >= 4

---------------------------------------------------------------------------
(* C28 *)

\* The nodes reached from root through the lists of children form a tree:
\* root has no parent, no node is reached twice, and every node listed as
\* a child is listed once, by the node that is its parent.
WellFormed(h, root) ==
    LET po == Preorder(h, root)
    IN /\ h[root].parent = NoNode
       /\ \A i, j \in DOMAIN po : po[i] = po[j] => i = j
       /\ \A n \in Range(po) \ {root} :
              /\ h[n].parent \in Range(po)
              /\ Cardinality({i \in DOMAIN h[h[n].parent].children :
                                 h[h[n].parent].children[i] = n}) = 1
       /\ \A m \in Range(po) : \A i \in DOMAIN h[m].children :
              h[h[m].children[i]].parent = m

\* One of the four functions has returned a tree.
TreeReturned ==
    /\ op \in {"root_above", "restore_rooting", "restore_node_labels",
                "restore_node_order"}
    /\ err = Ok

\* C28: every tree returned by root_above, restore_rooting,
\* restore_node_labels or restore_node_order is well formed: one node
\* without a parent, every other node once in the list of children of its
\* parent and in no other, no cycle.
C28_WellFormed == TreeReturned => WellFormed(heap, out)

\* The three stages in turn, on trees with unique names; the last returns
\* a tree in which the order of some children has changed.
C28_Witness ==
    /\ TreeReturned
    /\ trail = <<"restore_rooting", "restore_node_labels", "restore_node_order">>
    /\ UniqueNames(heap, args[1]) /\ UniqueNames(heap, args[2])
    /\ Nested(heap, out) # Nested(heap, args[2])

\* root_above has returned on a node of a rooted tree.
C28_WitnessRootAbove ==
    TreeReturned /\ op = "root_above" /\ ApexOfRooted(heap, trg)

---------------------------------------------------------------------------
(* C29 *)

RECURSIVE Unordered(_, _)
\* The tree below n as a value that does not tell the order of children:
\* <<name, length, number of children, the children as a set>>.
Unordered(h, n) ==
    <<h[n].name, h[n].length, Len(h[n].children),
      {Unordered(h, c) : c \in Range(h[n].children)}>>

\* C29: when restore_node_order returns, the result is trg up to the
\* order of children: the same nodes with the same names, lengths and,
\* by name, the same children; no child of a node of trg is left out.
C29_OnlyPermutes ==
    OrderRestored => Unordered(heap, out) = Unordered(heap, args[2])

\* Some internal node of src has fewer children than the node of trg of
\* its label.
FewerChildrenInSource(h, s, t) ==
    \E n \in InnerOf(h, s), m \in InnerOf(h, t) :
        h[n].name = h[m].name /\ Len(h[n].children) < Len(h[m].children)

\* On trees of unique names in which no node of src has fewer children
\* than its namesake in trg, the result is trg up to the order of children.
OnlyPermutesOnAsManyChildren ==
    (/\ OrderRestored
     /\ UniqueNames(heap, args[1]) /\ UniqueNames(heap, args[2])
     /\ ~FewerChildrenInSource(heap, args[1], args[2]))
        => Unordered(heap, out) = Unordered(heap, args[2])

\* Names are unique, a node of src has fewer children than its namesake
\* in trg, and the call returns a tree with fewer tips than trg.
ChildrenDropped ==
    /\ OrderRestored
    /\ UniqueNames(heap, args[1]) /\ UniqueNames(heap, args[2])
    /\ FewerChildrenInSource(heap, args[1], args[2])
    /\ Cardinality(TipsOf(heap, out)) < Cardinality(TipsOf(heap, args[2]))

---------------------------------------------------------------------------
(* C30 *)

\* The internal nodes of the tree at root that carry the label.
Carrying(h, root, label) == {n \in InnerOf(h, root) : h[n].name = label}

\* No internal node of the tree has a label.
Unlabelled(h, root) == \A n \in InnerOf(h, root) : h[n].name = NoName

\* Two internal nodes of the tree have the same tips.
SameTaxaTwice(h, root) ==
    \E a, b \in InnerOf(h, root) : a # b /\ TipNameSet(h, a) = TipNameSet(h, b)

\* C30: in the tree returned by restore_node_labels each label of src is
\* carried by at most one internal node, whatever trg is, a trg with
\* internal nodes of one child included.
C30_LabelCarriedOnce ==
    LabelsRestored
        => \A m \in InnerOf(heap, args[1]) :
              IsLabel(heap[m].name)
                  => Cardinality(Carrying(heap, out, heap[m].name)) <= 1

\* The same for a trg without labels in which no two internal nodes have
\* the same tips.
LabelCarriedOnceOnDistinctTaxa ==
    (/\ LabelsRestored
     /\ Unlabelled(heap, args[2])
     /\ ~SameTaxaTwice(heap, args[2]))
        => \A m \in InnerOf(heap, args[1]) :
              IsLabel(heap[m].name)
                  => Cardinality(Carrying(heap, out, heap[m].name)) <= 1

\* A trg without labels with an internal node of one child above an
\* internal node: both take the same label of src.
LabelCarriedTwice ==
    /\ LabelsRestored
    /\ Unlabelled(heap, args[2])
    /\ \E a, b \in InnerOf(heap, out) :
           /\ heap[b].parent = a /\ Len(heap[a].children) = 1
           /\ IsLabel(heap[a].name) /\ heap[a].name = heap[b].name

====
